---- MODULE Spec2Model ----
(***************************************************************************)
(* A model of simple-reverse-proxy (src/main.go): a path-embedded HTTP     *)
(* forward proxy.  Strings are sequences of one-character strings, so that *)
(* prefix tests, substring tests, cuts and trims are computed, not assumed.*)
(***************************************************************************)
EXTENDS Integers, Sequences, FiniteSets, TLC

VARIABLES
    call,        \* pure-function specifications: the function applied and its arguments
    ret,         \* pure-function specifications: its result
    mainPc,      \* where main() is: start, unmarshal, loaded, serving, fatal
    fileConfig,  \* proxy_config.xml: whether it reads and parses, and the table it holds
    config,      \* the global config (src/main.go:39)
    cfgGen,      \* per field of config, the generation of its value: 0 zero value, 1 loaded
    handler      \* per request goroutine, its position and the locals of proxyHandler

mainVars == <<mainPc, fileConfig, config, cfgGen, handler>>

vars == <<call, ret, mainPc, fileConfig, config, cfgGen, handler>>

(***************************************************************************)
(* Bounds of the model.                                                    *)
(***************************************************************************)
MaxSuffixLen == 3

(***************************************************************************)
(* String helpers (package strings / bytes of the Go standard library).    *)
(***************************************************************************)
NoRet == [kind |-> "none"]

NoCall == [fn |-> "none"]

\* the pure-function specifications leave the server's state alone
MainOff ==
    /\ mainPc = "off"
    /\ fileConfig = << >>
    /\ config = << >>
    /\ cfgGen = << >>
    /\ handler = << >>

\* s[from..] ; empty when from is past the end
Drop(s, n) == SubSeq(s, n + 1, Len(s))

Take(s, n) == SubSeq(s, 1, n)

\* strings.HasPrefix
HasPrefix(s, p) == Len(p) <= Len(s) /\ SubSeq(s, 1, Len(p)) = p

\* strings.HasSuffix
HasSuffix(s, p) == Len(p) <= Len(s) /\ SubSeq(s, Len(s) - Len(p) + 1, Len(s)) = p

\* strings.Index: the 1-based position of the first occurrence of p in s, 0 if none
Index(s, p) ==
    LET hits == {i \in 1..(Len(s) - Len(p) + 1) : SubSeq(s, i, i + Len(p) - 1) = p}
    IN  IF hits = {} THEN 0 ELSE CHOOSE i \in hits : \A j \in hits : i <= j

\* strings.LastIndex
LastIndex(s, p) ==
    LET hits == {i \in 1..(Len(s) - Len(p) + 1) : SubSeq(s, i, i + Len(p) - 1) = p}
    IN  IF hits = {} THEN 0 ELSE CHOOSE i \in hits : \A j \in hits : j <= i

\* strings.Contains (the empty pattern is contained in every string)
Contains(s, p) == \E i \in 1..(Len(s) - Len(p) + 1) : SubSeq(s, i, i + Len(p) - 1) = p

\* strings.Count for a one-character pattern
Count(s, c) == Cardinality({i \in 1..Len(s) : s[i] = c})

\* strings.Cut / bytes.Cut at the first occurrence of the one-character sep
CutBefore(s, sep) == IF Index(s, sep) = 0 THEN s ELSE Take(s, Index(s, sep) - 1)

CutAfter(s, sep) == IF Index(s, sep) = 0 THEN << >> ELSE Drop(s, Index(s, sep))

CutFound(s, sep) == Index(s, sep) # 0

\* All sequences over alphabet A of length at most n
RECURSIVE SeqsUpTo(_, _)
SeqsUpTo(A, n) ==
    IF n = 0 THEN {<< >>}
    ELSE LET shorter == SeqsUpTo(A, n - 1)
         IN  shorter \cup {Append(s, a) : s \in {t \in shorter : Len(t) = n - 1}, a \in A}

sHttp == <<"h", "t", "t", "p", ":", "/", "/">>

sHttps == <<"h", "t", "t", "p", "s", ":", "/", "/">>

sHttp1 == <<"h", "t", "t", "p", ":", "/">>

sHttps1 == <<"h", "t", "t", "p", "s", ":", "/">>

sWww == <<"w", "w", "w", ".">>

LowerSeq ==
    <<"a", "b", "c", "d", "e", "f", "g", "h", "i", "j", "k", "l", "m",
      "n", "o", "p", "q", "r", "s", "t", "u", "v", "w", "x", "y", "z">>

UpperSeq ==
    <<"A", "B", "C", "D", "E", "F", "G", "H", "I", "J", "K", "L", "M",
      "N", "O", "P", "Q", "R", "S", "T", "U", "V", "W", "X", "Y", "Z">>

LowerLetters == {LowerSeq[i] : i \in 1..Len(LowerSeq)}

UpperLetters == {UpperSeq[i] : i \in 1..Len(UpperSeq)}

Letters == LowerLetters \cup UpperLetters

Digits == {"0", "1", "2", "3", "4", "5", "6", "7", "8", "9"}

(***************************************************************************)
(* fixTargetURL, src/main.go:110-129.                                      *)
(* The regular expression ^(https?:/)([^/]) matches when the string starts *)
(* with http:/ or https:/ and the next character exists and is not a       *)
(* slash; the replacement $1/$2 inserts one slash between the two groups.  *)
(***************************************************************************)
reMatchLen(path) ==
    IF HasPrefix(path, sHttp1) /\ Len(path) > Len(sHttp1) /\ path[Len(sHttp1) + 1] # "/"
    THEN Len(sHttp1)
    ELSE IF HasPrefix(path, sHttps1) /\ Len(path) > Len(sHttps1)
            /\ path[Len(sHttps1) + 1] # "/"
         THEN Len(sHttps1)
         ELSE 0

reReplace(path) ==
    IF reMatchLen(path) > 0
    THEN Take(path, reMatchLen(path)) \o <<"/">> \o Drop(path, reMatchLen(path))
    ELSE path

fixTargetURL_NoRepair(path) ==
    IF ~HasPrefix(path, sHttp) /\ ~HasPrefix(path, sHttps)
    THEN sHttp \o path
    ELSE path

fixTargetURL(path) ==
    LET repaired == reReplace(path)
    IN  IF ~HasPrefix(repaired, sHttp) /\ ~HasPrefix(repaired, sHttps)
        THEN IF HasPrefix(repaired, sWww)
             THEN sHttp \o repaired
             ELSE sHttp \o repaired
        ELSE repaired

(***************************************************************************)
(* url.Parse of the Go standard library, as proxyHandler calls it at       *)
(* src/main.go:143 (and again inside http.NewRequest, src/main.go:183).    *)
(* Modelled for strings without '%' and '[' (no percent-decoding, no IPv6  *)
(* literals): the fragment is cut off, control characters are rejected,    *)
(* the scheme is split off, then the query, then the authority up to the   *)
(* next slash; the host is what follows the last '@' of the authority.     *)
(***************************************************************************)
CTLChars == {"\n", "\r", "\t"}


\* getScheme: the index of the ':' ending a valid scheme, 0 when the string
\* has no scheme, -1 for "missing protocol scheme" (a leading colon)
RECURSIVE getSchemeEnd(_, _)
getSchemeEnd(raw, i) ==
    IF i > Len(raw) THEN 0
    ELSE IF raw[i] \in Letters THEN getSchemeEnd(raw, i + 1)
    ELSE IF raw[i] \in Digits \cup {"+", "-", "."}
         THEN IF i = 1 THEN 0 ELSE getSchemeEnd(raw, i + 1)
    ELSE IF raw[i] = ":" THEN (IF i = 1 THEN -1 ELSE i)
    ELSE 0

\* strings.ToLower, character by character (ASCII)
lowerChar(c) ==
    IF c \in UpperLetters
    THEN LowerSeq[CHOOSE i \in 1..Len(UpperSeq) : UpperSeq[i] = c]
    ELSE c

upperChar(c) ==
    IF c \in LowerLetters
    THEN UpperSeq[CHOOSE i \in 1..Len(LowerSeq) : LowerSeq[i] = c]
    ELSE c

ToLower(s) == [i \in 1..Len(s) |-> lowerChar(s[i])]

\* validOptionalPort: empty, or ':' followed by digits only
validOptionalPort(port) ==
    port = << >> \/ (port[1] = ":" /\ \A i \in 2..Len(port) : port[i] \in Digits)

\* the bytes unescape(host, encodeHost) accepts without escaping
HostChars ==
    Letters \cup Digits \cup
    {"!", "$", "&", "'", "(", ")", "*", "+", ",", ";", "=", ":", "<", ">", "-", "_", ".", "~"}

\* parseHost
parseHostOk(host) ==
    /\ LastIndex(host, <<":">>) # 0 => validOptionalPort(Drop(host, LastIndex(host, <<":">>) - 1))
    /\ \A i \in 1..Len(host) : host[i] \in HostChars

\* validUserinfo
UserinfoChars ==
    Letters \cup Digits \cup
    {"-", ".", "_", ":", "~", "!", "$", "&", "'", "(", ")", "*", "+", ",", ";", "=", "@"}

\* parseAuthority: the host is what follows the last '@'
authorityHost(authority) ==
    IF LastIndex(authority, <<"@">>) = 0 THEN authority
    ELSE Drop(authority, LastIndex(authority, <<"@">>))

\* url.Userinfo: User(name) when the userinfo holds no colon, else
\* UserPassword(name, password) split at the first colon
NoUser == [set |-> FALSE, username |-> << >>, password |-> << >>]

UserPassword(username, password) ==
    [set |-> TRUE, username |-> username, password |-> password]

authorityUser(authority) ==
    IF LastIndex(authority, <<"@">>) = 0 THEN NoUser
    ELSE LET userinfo == Take(authority, LastIndex(authority, <<"@">>) - 1)
         IN  UserPassword(CutBefore(userinfo, <<":">>), CutAfter(userinfo, <<":">>))

\* the result of a failed parse (the *URL is nil)
ParseError ==
    [ok |-> FALSE, Scheme |-> << >>, User |-> NoUser, Host |-> << >>, Path |-> << >>,
     RawQuery |-> << >>, Opaque |-> << >>]

parseAuthorityOk(authority) ==
    /\ parseHostOk(authorityHost(authority))
    /\ LastIndex(authority, <<"@">>) # 0 =>
          \A i \in 1..(LastIndex(authority, <<"@">>) - 1) : authority[i] \in UserinfoChars

UrlParse(rawURL) ==
    LET u       == CutBefore(rawURL, <<"#">>)
        end     == getSchemeEnd(u, 1)
        scheme  == IF end > 0 THEN ToLower(Take(u, end - 1)) ELSE << >>
        rest0   == IF end > 0 THEN Drop(u, end) ELSE u
        force   == HasSuffix(rest0, <<"?">>) /\ Count(rest0, "?") = 1
        rest1   == IF force THEN Take(rest0, Len(rest0) - 1) ELSE CutBefore(rest0, <<"?">>)
        query   == IF force THEN << >> ELSE CutAfter(rest0, <<"?">>)
        hasAuth == /\ HasPrefix(rest1, <<"/", "/">>)
                   /\ (scheme # << >> \/ ~HasPrefix(rest1, <<"/", "/", "/">>))
        auth0   == Drop(rest1, 2)
        slash   == Index(auth0, <<"/">>)
        auth    == IF slash = 0 THEN auth0 ELSE Take(auth0, slash - 1)
        path    == IF hasAuth THEN (IF slash = 0 THEN << >> ELSE Drop(auth0, slash - 1))
                   ELSE rest1
    IN  IF \E i \in 1..Len(u) : u[i] \in CTLChars THEN ParseError
        ELSE IF u = <<"*">>
             THEN [ok |-> TRUE, Scheme |-> << >>, User |-> NoUser, Host |-> << >>, Path |-> u,
                   RawQuery |-> << >>, Opaque |-> << >>]
        ELSE IF end = -1 THEN ParseError
        ELSE IF ~HasPrefix(rest1, <<"/">>) /\ scheme # << >>
             THEN [ok |-> TRUE, Scheme |-> scheme, User |-> NoUser, Host |-> << >>,
                   Path |-> << >>, RawQuery |-> query, Opaque |-> rest1]
        ELSE IF ~HasPrefix(rest1, <<"/">>) /\ Contains(CutBefore(rest1, <<"/">>), <<":">>)
             THEN ParseError
        ELSE IF hasAuth /\ ~parseAuthorityOk(auth) THEN ParseError
        ELSE [ok |-> TRUE, Scheme |-> scheme,
              User |-> IF hasAuth THEN authorityUser(auth) ELSE NoUser,
              Host |-> IF hasAuth THEN authorityHost(auth) ELSE << >>,
              Path |-> path, RawQuery |-> query, Opaque |-> << >>]

(***************************************************************************)
(* proxyHandler, src/main.go:131-147: the target is the request path       *)
(* without its leading slash, plus '?' and the raw query when there is     *)
(* one, repaired by fixTargetURL and parsed; a parse failure is a 400.     *)
(***************************************************************************)
targetOf(path, rawQuery) ==
    LET stripped == Drop(path, 1)
        withQ    == IF rawQuery # << >> THEN stripped \o <<"?">> \o rawQuery ELSE stripped
    IN  fixTargetURL(withQ)

(***************************************************************************)
(* Inputs of the pure-function specifications.                             *)
(***************************************************************************)
FixAlphabet == {"a", "/", ":"}

FixPrefixes ==
    { << >>, <<"h", "t", "t", "p", ":">>, sHttp1, sHttp,
      <<"h", "t", "t", "p", "s", ":">>, sHttps1, sHttps,
      <<"f", "t", "p", ":", "/">>, <<"f", "t", "p", ":", "/", "/">>,
      sWww, <<"H", "T", "T", "P", ":", "/">> }

FixCandidates == {p \o t : p \in FixPrefixes, t \in SeqsUpTo(FixAlphabet, MaxSuffixLen)}

\* http.ServeMux redirects every request whose path is not clean before the
\* handler registered at src/main.go:277 runs, so the handler never sees a path
\* with two adjacent slashes
CleanPath(path) == ~Contains(path, <<"/", "/">>)

PathAlphabet == {"a", "/", ":", "1", " ", "@"}

PathPrefixes ==
    { << >>, sHttp1, sHttps1, <<"h", "t", "t", "p", ":">>, sWww,
      <<"f", "t", "p", ":", "/">> }

RequestPaths ==
    {<<"/">> \o p \o t : p \in PathPrefixes, t \in SeqsUpTo(PathAlphabet, MaxSuffixLen)}

RawQueries == { << >>, <<"q">>, <<"/", "/", "a">> }

(***************************************************************************)
(* SpecFix: fixTargetURL applied to every candidate string of the bounded  *)
(* set.                                                                    *)
(***************************************************************************)
InitFix ==
    /\ MainOff
    /\ call \in {[fn |-> "fixTargetURL", path |-> c] : c \in FixCandidates}
    /\ ret = NoRet

FixCall ==
    /\ call.fn = "fixTargetURL"
    /\ ret = NoRet
    /\ ret' = [kind |-> "string", value |-> fixTargetURL(call.path)]
    /\ UNCHANGED <<call, mainVars>>

(***************************************************************************)
(* SpecNormalize: lines 133-147 of proxyHandler applied to every request   *)
(* path and query of the bounded set.                                      *)
(***************************************************************************)
InitNormalize ==
    /\ MainOff
    /\ call \in {[fn |-> "normalize", path |-> p, rawQuery |-> q] :
                    p \in {x \in RequestPaths : CleanPath(x)}, q \in RawQueries}
    /\ ret = NoRet

NormalizeCall ==
    /\ call.fn = "normalize"
    /\ ret = NoRet
    /\ LET targetPath == targetOf(call.path, call.rawQuery)
           targetURL  == UrlParse(targetPath)
       IN  ret' = IF targetURL.ok
                  THEN [kind |-> "target", targetPath |-> targetPath, targetURL |-> targetURL]
                  ELSE [kind |-> "error", status |-> 400]
    /\ UNCHANGED <<call, mainVars>>

SpecFix == InitFix /\ [][FixCall]_vars

SpecNormalize == InitNormalize /\ [][NormalizeCall]_vars

(***************************************************************************)
(* The routing table: ProxyConfig, ProxyRule, CustomHeader                 *)
(* (src/main.go:17-37) and the resolver (src/main.go:64-92).  A *ProxyRule *)
(* is a sequence of length 0 (nil) or 1.                                   *)
(***************************************************************************)
ProxyRule(domain, proxyURL, username, password) ==
    [Domain |-> domain, ProxyURL |-> proxyURL, Username |-> username, Password |-> password]

ProxyConfig(defaultProxy, proxyRules, directDomains, customHeaders) ==
    [DefaultProxy |-> defaultProxy, ProxyRules |-> proxyRules,
     DirectDomains |-> directDomains, CustomHeaders |-> customHeaders]

NilRule == << >>

\* for _, d := range directDomains { if strings.Contains(domain, d) { return true } }
isDirect(directDomains, domain) ==
    \E i \in 1..Len(directDomains) : Contains(domain, directDomains[i])

\* the loop of lines 80-84, from index i on: the first rule whose Domain the host contains
RECURSIVE scanRules(_, _, _)
scanRules(proxyRules, domain, i) ==
    IF i > Len(proxyRules) THEN NilRule
    ELSE IF Contains(domain, proxyRules[i].Domain) THEN <<proxyRules[i]>>
    ELSE scanRules(proxyRules, domain, i + 1)

\* a resolver that consults the rules before the direct list
findProxyRule_RulesFirst(cfg, domain) ==
    IF scanRules(cfg.ProxyRules, domain, 1) # NilRule
    THEN scanRules(cfg.ProxyRules, domain, 1)
    ELSE IF isDirect(cfg.DirectDomains, domain) THEN NilRule
    ELSE IF cfg.DefaultProxy.ProxyURL # << >> THEN <<cfg.DefaultProxy>>
    ELSE NilRule

findProxyRule(cfg, domain) ==
    IF isDirect(cfg.DirectDomains, domain) THEN NilRule
    ELSE IF scanRules(cfg.ProxyRules, domain, 1) # NilRule
         THEN scanRules(cfg.ProxyRules, domain, 1)
    ELSE IF cfg.DefaultProxy.ProxyURL # << >> THEN <<cfg.DefaultProxy>>
    ELSE NilRule

(***************************************************************************)
(* SpecResolve: findProxyRule applied to every host and routing table of   *)
(* the bounded sets.                                                       *)
(***************************************************************************)
MaxHostLen == 3

MaxRules == 2

MaxDirect == 1

HostAlphabet == {"a", "b"}

ResolveHosts == SeqsUpTo(HostAlphabet, MaxHostLen)

DomainPatterns == { << >>, <<"a">>, <<"b">>, <<"a", "b">> }

proxyA == <<"h", "t", "t", "p", ":", "/", "/", "p", "a">>

proxyB == <<"h", "t", "t", "p", ":", "/", "/", "p", "b">>

proxyD == <<"h", "t", "t", "p", ":", "/", "/", "p", "d">>

ResolveRules == {ProxyRule(d, u, << >>, << >>) : d \in DomainPatterns, u \in {proxyA, proxyB}}

ResolveDefaults == {ProxyRule(<< >>, u, << >>, << >>) : u \in {<< >>, proxyD}}

ResolveTables ==
    {ProxyConfig(dp, rs, dd, << >>) :
        dp \in ResolveDefaults,
        rs \in SeqsUpTo(ResolveRules, MaxRules),
        dd \in SeqsUpTo(DomainPatterns \ {<<"a", "b">>}, MaxDirect)}

InitResolve ==
    /\ MainOff
    /\ call \in {[fn |-> "findProxyRule", config |-> c, domain |-> h] :
                    c \in ResolveTables, h \in ResolveHosts}
    /\ ret = NoRet

ResolveCall ==
    /\ call.fn = "findProxyRule"
    /\ ret = NoRet
    /\ ret' = [kind |-> "rule", value |-> findProxyRule(call.config, call.domain)]
    /\ UNCHANGED <<call, mainVars>>

SpecResolve == InitResolve /\ [][ResolveCall]_vars

(***************************************************************************)
(* Claims about the pure functions.                                        *)
(***************************************************************************)
MinOf(S) == CHOOSE i \in S : \A j \in S : i <= j

ExpectedRule(cfg, host) ==
    LET directHit == \E i \in 1..Len(cfg.DirectDomains) :
                        Contains(host, cfg.DirectDomains[i])
        hits      == {i \in 1..Len(cfg.ProxyRules) :
                        Contains(host, cfg.ProxyRules[i].Domain)}
    IN  IF directHit THEN NilRule
        ELSE IF hits # {} THEN <<cfg.ProxyRules[MinOf(hits)]>>
        ELSE IF cfg.DefaultProxy.ProxyURL # << >> THEN <<cfg.DefaultProxy>>
        ELSE NilRule

\* C1: findProxyRule returns Direct when the host contains a direct domain, else
\* the first rule in list order whose domain the host contains, else the default
\* proxy when its URL is non-empty, else Direct.
C1_DecisionOrder ==
    ret.kind = "rule" => ret.value = ExpectedRule(call.config, call.domain)

\* two rules with different proxies both match the host, a direct domain exists
\* and does not match, and the earlier rule was returned
C1_Witness ==
    /\ ret.kind = "rule"
    /\ Len(call.config.ProxyRules) = 2
    /\ Contains(call.domain, call.config.ProxyRules[1].Domain)
    /\ Contains(call.domain, call.config.ProxyRules[2].Domain)
    /\ call.config.ProxyRules[1].ProxyURL # call.config.ProxyRules[2].ProxyURL
    /\ Len(call.config.DirectDomains) = 1
    /\ ~Contains(call.domain, call.config.DirectDomains[1])
    /\ ret.value = <<call.config.ProxyRules[1]>>

\* C2: whenever the target of a request parses, the parsed URL has a non-empty
\* scheme and a non-empty host.
C2_SchemeAndHostNonEmpty ==
    ret.kind = "target" => ret.targetURL.Scheme # << >> /\ ret.targetURL.Host # << >>

\* The two repair steps with "scheme" read as any URI scheme (a letter followed
\* by letters, digits, '+', '-', '.').
RepairAnyScheme(c) ==
    LET e == getSchemeEnd(c, 1)
    IN  IF e > 0 /\ Len(c) >= e + 2 /\ c[e + 1] = "/" /\ c[e + 2] # "/"
        THEN Take(c, e + 1) \o <<"/">> \o Drop(c, e + 1)
        ELSE c

\* The repair step with the scheme being http or https.
RepairHttpScheme(c) ==
    LET schemes == { <<"h", "t", "t", "p">>, <<"h", "t", "t", "p", "s">> }
        single  == {sch \in schemes :
                       /\ HasPrefix(c, sch \o <<":", "/">>)
                       /\ Len(c) >= Len(sch) + 3
                       /\ c[Len(sch) + 3] # "/"}
    IN  IF single = {} THEN c
        ELSE LET sch == CHOOSE x \in single : TRUE
             IN  sch \o <<":", "/", "/">> \o Drop(c, Len(sch) + 2)

PrependHttp(c) == IF HasPrefix(c, sHttp) \/ HasPrefix(c, sHttps) THEN c ELSE sHttp \o c

\* C3 as stated: for every candidate of the form scheme, colon, one slash, non-slash
\* the slash is inserted; then http:// is prepended unless the result starts with
\* http:// or https://.
C3_AnySchemeRepaired ==
    ret.kind = "string" => ret.value = PrependHttp(RepairAnyScheme(call.path))

\* C3 amended: the slash is inserted only when the scheme is http or https.
C3_HttpSchemeRepaired ==
    ret.kind = "string" => ret.value = PrependHttp(RepairHttpScheme(call.path))

\* a candidate with a single slash after https: was repaired and nothing prepended
C3_Witness ==
    /\ ret.kind = "string"
    /\ call.path = sHttps1 \o <<"a", "/", "a">>
    /\ ret.value = sHttps \o <<"a", "/", "a">>

(***************************************************************************)
(* http.Header: a map from canonical header names to the list of values.   *)
(* Add and Set canonicalise the name with textproto.CanonicalMIMEHeaderKey:*)
(* a name with a byte that is no token byte is left as it is; otherwise    *)
(* the first letter and every letter after a dash are upper-cased and the  *)
(* others lower-cased.                                                     *)
(***************************************************************************)
TokenChars ==
    Letters \cup Digits \cup
    {"!", "#", "$", "%", "&", "'", "*", "+", "-", ".", "^", "_", "|", "~"}

CanonicalMIMEHeaderKey(key) ==
    IF \E i \in 1..Len(key) : key[i] \notin TokenChars THEN key
    ELSE [i \in 1..Len(key) |->
            IF i = 1 \/ key[i - 1] = "-" THEN upperChar(key[i]) ELSE lowerChar(key[i])]

EmptyHeader == << >>

HeaderValues(h, k) == IF k \in DOMAIN h THEN h[k] ELSE << >>

HeaderAdd(h, key, value) ==
    LET k == CanonicalMIMEHeaderKey(key)
    IN  [x \in DOMAIN h \cup {k} |-> IF x = k THEN Append(HeaderValues(h, k), value) ELSE h[x]]

HeaderSet(h, key, value) ==
    LET k == CanonicalMIMEHeaderKey(key)
    IN  [x \in DOMAIN h \cup {k} |-> IF x = k THEN <<value>> ELSE h[x]]

\* Header.Get: the first value of the name, "" when there is none
HeaderGet(h, key) ==
    LET k == CanonicalMIMEHeaderKey(key)
    IN  IF k \in DOMAIN h /\ Len(h[k]) > 0 THEN h[k][1] ELSE << >>

(***************************************************************************)
(* addHeadersFromTxt, src/main.go:246-264.  The file system is a function  *)
(* from resource paths to a read result: an error or the bytes.          *)
(***************************************************************************)
Unreadable == [err |-> TRUE, data |-> << >>]

File(b) == [err |-> FALSE, data |-> b]

\* bytes.Split(b, "\n")
RECURSIVE SplitLines(_)
SplitLines(b) ==
    IF Index(b, <<"\n">>) = 0 THEN <<b>>
    ELSE <<Take(b, Index(b, <<"\n">>) - 1)>> \o SplitLines(Drop(b, Index(b, <<"\n">>)))

TrimCutset == {" ", "\n", "\r"}

RECURSIVE TrimLeft(_)
TrimLeft(b) == IF b # << >> /\ b[1] \in TrimCutset THEN TrimLeft(Tail(b)) ELSE b

RECURSIVE TrimRight(_)
TrimRight(b) ==
    IF b # << >> /\ b[Len(b)] \in TrimCutset THEN TrimRight(Take(b, Len(b) - 1)) ELSE b

\* bytes.Trim(b, " \n\r")
Trim(b) == TrimRight(TrimLeft(b))

sContentLength == <<"c", "o", "n", "t", "e", "n", "t", "-", "l", "e", "n", "g", "t", "h">>

sTransferEncoding ==
    <<"t", "r", "a", "n", "s", "f", "e", "r", "-", "e", "n", "c", "o", "d", "i", "n", "g">>

\* the body of the loop of lines 253-263 for one row
addRow(header, row) ==
    IF CutFound(row, <<":">>)
    THEN LET key  == Trim(CutBefore(row, <<":">>))
             lkey == ToLower(key)
         IN  IF lkey = sContentLength \/ lkey = sTransferEncoding THEN header
             ELSE HeaderAdd(header, key, Trim(CutAfter(row, <<":">>)))
    ELSE header

RECURSIVE addRows(_, _, _)
addRows(header, rows, i) ==
    IF i > Len(rows) THEN header ELSE addRows(addRow(header, rows[i]), rows, i + 1)

\* a reader that applies the first line too
addHeadersFromTxt_FirstLineToo(fs, path, header) ==
    IF fs[path].err THEN header
    ELSE addRows(header, SplitLines(fs[path].data), 1)

addHeadersFromTxt(fs, path, header) ==
    IF fs[path].err THEN header
    ELSE addRows(header, SplitLines(fs[path].data), 2)

CustomHeader(domain, pathPrefix, headersPath) ==
    [Domain |-> domain, PathPrefix |-> pathPrefix, HeadersPath |-> headersPath]

\* the loop of lines 189-194, from index i on
RECURSIVE injectCustomHeaders(_, _, _, _, _)
injectCustomHeaders(customHeaders, fs, targetURL, header, i) ==
    IF i > Len(customHeaders) THEN header
    ELSE IF /\ customHeaders[i].Domain = targetURL.Host
            /\ HasPrefix(targetURL.Path, customHeaders[i].PathPrefix)
         THEN addHeadersFromTxt(fs, customHeaders[i].HeadersPath, header)
    ELSE injectCustomHeaders(customHeaders, fs, targetURL, header, i + 1)

(***************************************************************************)
(* proxyHandler, src/main.go:189-208: the outbound request's headers.      *)
(* http.NewRequest returns a request with an empty header; the custom      *)
(* headers are injected, then every inbound header except Host, Connection *)
(* and Content-Length is copied value by value, then X-Forwarded-For is    *)
(* set to the caller's remote address.                                     *)
(***************************************************************************)
sHost == <<"H", "o", "s", "t">>

sConnection == <<"C", "o", "n", "n", "e", "c", "t", "i", "o", "n">>

sContentLengthKey == <<"C", "o", "n", "t", "e", "n", "t", "-", "L", "e", "n", "g", "t", "h">>

sXForwardedFor == <<"X", "-", "F", "o", "r", "w", "a", "r", "d", "e", "d", "-", "F", "o", "r">>

sAccept == <<"A", "c", "c", "e", "p", "t">>

SkippedKeys == {sHost, sConnection, sContentLengthKey}

\* for _, value := range values { req.Header.Add(key, value) }
RECURSIVE addValues(_, _, _, _)
addValues(header, key, values, i) ==
    IF i > Len(values) THEN header
    ELSE addValues(HeaderAdd(header, key, values[i]), key, values, i + 1)

\* the loop of lines 197-205 over the keys still to visit (a Go map is visited
\* in an arbitrary order; the keys are distinct, so the result does not depend
\* on it)
RECURSIVE copyHeaders(_, _, _)
copyHeaders(header, inbound, keys) ==
    IF keys = {} THEN header
    ELSE LET key == CHOOSE k \in keys : TRUE
         IN  IF key \in SkippedKeys
             THEN copyHeaders(header, inbound, keys \ {key})
             ELSE copyHeaders(addValues(header, key, inbound[key], 1), inbound, keys \ {key})

\* a handler that adds the remote address instead of setting it
outboundHeader_AddForwarded(customHeaders, fs, targetURL, inbound, remoteAddr) ==
    HeaderAdd(copyHeaders(injectCustomHeaders(customHeaders, fs, targetURL, EmptyHeader, 1),
                          inbound, DOMAIN inbound),
              sXForwardedFor, remoteAddr)

outboundHeader(customHeaders, fs, targetURL, inbound, remoteAddr) ==
    HeaderSet(copyHeaders(injectCustomHeaders(customHeaders, fs, targetURL, EmptyHeader, 1),
                          inbound, DOMAIN inbound),
              sXForwardedFor, remoteAddr)

(***************************************************************************)
(* SpecBuild: lines 189-208 applied to bounded sets of header-list files,  *)
(* custom-header bindings and inbound headers.                             *)
(***************************************************************************)
MaxPieces == 4

MaxBindings == 2

MaxValues == 2

hostA == <<"a">>

hostB == <<"b">>

remoteAddr1 == <<"1", ":", "9">>

\* the pieces header-list files are concatenated from
FilePieces ==
    { <<"\n">>, <<":">>, <<" ">>, <<"K">>, sContentLength, <<"T", "r", "a", "n", "s", "f", "e", "r", "-", "E", "n", "c", "o", "d", "i", "n", "g">> }

RECURSIVE Concat(_)
Concat(ss) == IF ss = << >> THEN << >> ELSE Head(ss) \o Concat(Tail(ss))

FileContents == {File(Concat(ps)) : ps \in SeqsUpTo(FilePieces, MaxPieces)}

fileOne ==
    File(<<"#", " ", "c", "\r", "\n", " ", "x", "-", "a", "p", "i", "-", "k", "e", "y", " ", ":", " ", "v", ":", "w", " ", "\r", "\n">>
         \o <<"C", "O", "N", "T", "E", "N", "T", "-", "L", "E", "N", "G", "T", "H", ":", " ", "1", "\r", "\n", "n", "o", " ", "c", "o", "l", "o", "n", "\r", "\n", "K", ":", "k">>)

fileFwd == File(<<"#", "\n", "x", "-", "f", "o", "r", "w", "a", "r", "d", "e", "d", "-", "f", "o", "r", ":", "6", "\n", "C", "o", "n", "n", "e", "c", "t", "i", "o", "n", ":", "k", "\n", "A", "c", "c", "e", "p", "t", ":", "z">>)

fileTwo == File(<<"\n", "Z", ":", "z">>)

targetA(path) ==
    [ok |-> TRUE, Scheme |-> <<"h", "t", "t", "p">>, User |-> NoUser, Host |-> hostA,
     Path |-> path,
     RawQuery |-> << >>, Opaque |-> << >>]

\* one matching binding, every file content
FileCases ==
    {[fn |-> "buildRequest",
      customHeaders |-> <<CustomHeader(hostA, << >>, "f1")>>,
      fs |-> [p \in {"f1", "f2"} |-> IF p = "f1" THEN c ELSE Unreadable],
      targetURL |-> targetA(<<"/", "a">>), header |-> EmptyHeader, remoteAddr |-> remoteAddr1] :
        c \in FileContents \cup {Unreadable}}

Bindings ==
    {CustomHeader(d, pp, f) : d \in {hostA, hostB}, pp \in {<< >>, <<"/", "a">>, <<"/", "b">>},
                              f \in {"f1", "f2"}}

\* every list of bindings, two file systems, two target paths
BindingCases ==
    {[fn |-> "buildRequest", customHeaders |-> bs,
      fs |-> [p \in {"f1", "f2"} |-> IF p = "f1" THEN c ELSE fileTwo],
      targetURL |-> targetA(path), header |-> EmptyHeader, remoteAddr |-> remoteAddr1] :
        bs \in SeqsUpTo(Bindings, MaxBindings), c \in {fileOne, Unreadable},
        path \in {<<"/", "a", "/", "x">>, << >>}}

\* r.Header: the server stores canonical names, and keeps Host out of the map
InboundValueLists == SeqsUpTo({<<"v">>, <<"w">>}, MaxValues)

\* the map with the given value lists, a name without values being absent
HeaderOf(connection, contentLength, forwarded, accept) ==
    LET all == [k \in {sConnection, sContentLengthKey, sXForwardedFor, sAccept} |->
                  IF k = sConnection THEN connection
                  ELSE IF k = sContentLengthKey THEN contentLength
                  ELSE IF k = sXForwardedFor THEN forwarded
                  ELSE accept]
    IN  [k \in {x \in DOMAIN all : all[x] # << >>} |-> all[k]]

InboundHeaders ==
    {HeaderOf(c, cl, x, a) : c \in InboundValueLists, cl \in {<< >>, <<<<"1">>>>},
                             x \in InboundValueLists, a \in InboundValueLists}

\* every inbound header map, with and without an injecting binding
HeaderCases ==
    {[fn |-> "buildRequest", customHeaders |-> bs,
      fs |-> [p \in {"f1", "f2"} |-> IF p = "f1" THEN fileFwd ELSE fileTwo],
      targetURL |-> targetA(<<"/", "a">>), header |-> hd, remoteAddr |-> remoteAddr1] :
        bs \in {<< >>, <<CustomHeader(hostA, <<"/", "a">>, "f1")>>}, hd \in InboundHeaders}

InitBuild ==
    /\ MainOff
    /\ \/ call \in FileCases
       \/ call \in BindingCases
       \/ call \in HeaderCases
    /\ ret = NoRet

BuildCall ==
    /\ call.fn = "buildRequest"
    /\ ret = NoRet
    /\ ret' = [kind |-> "request",
               injected |-> injectCustomHeaders(call.customHeaders, call.fs, call.targetURL,
                                                EmptyHeader, 1),
               header |-> outboundHeader(call.customHeaders, call.fs, call.targetURL,
                                         call.header, call.remoteAddr)]
    /\ UNCHANGED <<call, mainVars>>

SpecBuild == InitBuild /\ [][BuildCall]_vars

(***************************************************************************)
(* Claims about the outbound request's headers.                            *)
(***************************************************************************)
MatchingBindings(c) ==
    {i \in 1..Len(c.customHeaders) :
        /\ c.customHeaders[i].Domain = c.targetURL.Host
        /\ HasPrefix(c.targetURL.Path, c.customHeaders[i].PathPrefix)}

RowName(row) == Trim(CutBefore(row, <<":">>))

RowValue(row) == Trim(CutAfter(row, <<":">>))

\* the lines after the first that hold a colon and name no excluded header
EligibleRows(lines) ==
    {i \in 2..Len(lines) :
        /\ \E j \in 1..Len(lines[i]) : lines[i][j] = ":"
        /\ ToLower(RowName(lines[i])) \notin {sContentLength, sTransferEncoding}}

\* the values of the rows of S named k, in file order
RECURSIVE ValuesInOrder(_, _, _)
ValuesInOrder(lines, S, k) ==
    IF S = {} THEN << >>
    ELSE LET i == MinOf(S)
         IN  (IF CanonicalMIMEHeaderKey(RowName(lines[i])) = k
              THEN <<RowValue(lines[i])>> ELSE << >>)
             \o ValuesInOrder(lines, S \ {i}, k)

ExpectedInjected(c) ==
    IF MatchingBindings(c) = {} THEN EmptyHeader
    ELSE LET f == c.fs[c.customHeaders[MinOf(MatchingBindings(c))].HeadersPath]
         IN  IF f.err THEN EmptyHeader
             ELSE LET lines == SplitLines(f.data)
                      rows  == EligibleRows(lines)
                  IN  [k \in {CanonicalMIMEHeaderKey(RowName(lines[i])) : i \in rows} |->
                         ValuesInOrder(lines, rows, k)]

\* C8: the headers injected from custom-header bindings are exactly those of the
\* first binding whose domain equals the target host and whose pathPrefix is a
\* prefix of the target path: every line after the first that holds a colon, as
\* (trimmed name, trimmed value) split at the first colon, except content-length
\* and transfer-encoding in any case; nothing when no binding matches or the
\* resource cannot be read.
C8_InjectedHeaders ==
    ret.kind = "request" =>
        /\ DOMAIN ret.injected = DOMAIN ExpectedInjected(call)
        /\ \A k \in DOMAIN ret.injected : ret.injected[k] = ExpectedInjected(call)[k]

\* two bindings match, the first one's resource was applied: its first line and
\* its CONTENT-LENGTH line are absent, the value is split at the first colon and
\* trimmed, and the second binding's header Z is absent
C8_Witness ==
    /\ ret.kind = "request"
    /\ Cardinality(MatchingBindings(call)) = 2
    /\ call.customHeaders[1].HeadersPath = "f1"
    /\ call.customHeaders[2].HeadersPath = "f2"
    /\ ~call.fs["f1"].err
    /\ DOMAIN ret.injected = {<<"X", "-", "A", "p", "i", "-", "K", "e", "y">>, <<"K">>}
    /\ ret.injected[<<"X", "-", "A", "p", "i", "-", "K", "e", "y">>] = <<<<"v", ":", "w">>>>

\* C9: when the outbound request is sent, X-Forwarded-For has exactly one value,
\* the caller's remote address; no inbound Host, Connection or Content-Length
\* value was copied; every value of every other inbound header was copied.
C9_ForwardedHeaders ==
    ret.kind = "request" =>
        /\ HeaderValues(ret.header, sXForwardedFor) = <<call.remoteAddr>>
        /\ \A k \in SkippedKeys :
              HeaderValues(ret.header, k) = HeaderValues(ret.injected, k)
        /\ \A k \in (DOMAIN call.header \cup DOMAIN ret.injected \cup DOMAIN ret.header)
                       \ (SkippedKeys \cup {sXForwardedFor}) :
              HeaderValues(ret.header, k) =
                  HeaderValues(ret.injected, k) \o HeaderValues(call.header, k)

\* the caller sent two X-Forwarded-For values, a Connection and two Accept values,
\* and the resource injected an X-Forwarded-For, a Connection and an Accept
C9_Witness ==
    /\ ret.kind = "request"
    /\ HeaderValues(call.header, sXForwardedFor) = <<<<"v">>, <<"w">>>>
    /\ HeaderValues(call.header, sConnection) = <<<<"v">>>>
    /\ HeaderValues(call.header, sAccept) = <<<<"w">>, <<"v">>>>
    /\ HeaderValues(ret.injected, sXForwardedFor) = <<<<"6">>>>
    /\ HeaderValues(ret.header, sXForwardedFor) = <<remoteAddr1>>
    /\ HeaderValues(ret.header, sConnection) = <<<<"k">>>>
    /\ HeaderValues(ret.header, sAccept) = <<<<"z">>, <<"w">>, <<"v">>>>

(***************************************************************************)
(* proxyHandler, src/main.go:149-180: the resolved rule and the transport. *)
(* A rule with a non-empty ProxyURL gives a transport through the parsed   *)
(* proxy URL (a parse failure is a 500); the rule's Username and Password, *)
(* when both are non-empty, replace the URL's own userinfo.                *)
(***************************************************************************)
DirectTransport == [err |-> FALSE, proxied |-> FALSE, proxyURL |-> ParseError]

TransportError == [err |-> TRUE, proxied |-> FALSE, proxyURL |-> ParseError]

\* a handler that attaches the credentials as soon as a username is configured
transportFor_UsernameOnly(proxyRule) ==
    IF proxyRule # NilRule /\ proxyRule[1].ProxyURL # << >>
    THEN LET proxyURL == UrlParse(proxyRule[1].ProxyURL)
         IN  IF ~proxyURL.ok THEN TransportError
             ELSE [err |-> FALSE, proxied |-> TRUE,
                   proxyURL |->
                       IF proxyRule[1].Username # << >>
                       THEN [proxyURL EXCEPT !.User =
                                UserPassword(proxyRule[1].Username, proxyRule[1].Password)]
                       ELSE proxyURL]
    ELSE DirectTransport

transportFor(proxyRule) ==
    IF proxyRule # NilRule /\ proxyRule[1].ProxyURL # << >>
    THEN LET proxyURL == UrlParse(proxyRule[1].ProxyURL)
         IN  IF ~proxyURL.ok THEN TransportError
             ELSE [err |-> FALSE, proxied |-> TRUE,
                   proxyURL |->
                       IF proxyRule[1].Username # << >> /\ proxyRule[1].Password # << >>
                       THEN [proxyURL EXCEPT !.User =
                                UserPassword(proxyRule[1].Username, proxyRule[1].Password)]
                       ELSE proxyURL]
    ELSE DirectTransport

(***************************************************************************)
(* SpecTransport: lines 149-180 applied to bounded sets of routing tables. *)
(***************************************************************************)
proxyWithUser == <<"h", "t", "t", "p", ":", "/", "/", "u", ":", "p", "@", "p", "a">>

proxyMalformed == <<":", "p", "a">>

TransportRules ==
    {ProxyRule(d, u, c[1], c[2]) :
        d \in {<<"a">>, <<"b">>},
        u \in {<< >>, proxyA, proxyWithUser, proxyMalformed},
        c \in {<<<< >>, << >>>>, <<<<"n">>, << >>>>, <<<<"n">>, <<"s">>>>}}

TransportDefaults ==
    {ProxyRule(<< >>, << >>, << >>, << >>), ProxyRule(<< >>, proxyD, <<"n">>, <<"s">>)}

TransportTables ==
    {ProxyConfig(dp, rs, dd, << >>) :
        dp \in TransportDefaults,
        rs \in SeqsUpTo(TransportRules, MaxRules),
        dd \in {<< >>, <<<<"b", "b">>>>}}

InitTransport ==
    /\ MainOff
    /\ call \in {[fn |-> "transport", config |-> c, domain |-> h] :
                    c \in TransportTables, h \in {<<"a">>, <<"c">>, <<"a", "b", "b">>}}
    /\ ret = NoRet

TransportCall ==
    /\ call.fn = "transport"
    /\ ret = NoRet
    /\ LET proxyRule == findProxyRule(call.config, call.domain)
       IN  ret' = [kind |-> "transport", proxyRule |-> proxyRule,
                   transport |-> transportFor(proxyRule)]
    /\ UNCHANGED <<call, mainVars>>

SpecTransport == InitTransport /\ [][TransportCall]_vars

\* a request reached dispatch and the rule the resolver specifies for it
Dispatched == ret.kind = "transport" /\ ~ret.transport.err

ResolvedRule == ExpectedRule(call.config, call.domain)

RoutedThroughRule ==
    /\ ret.transport.proxied <=> (ResolvedRule # NilRule /\ ResolvedRule[1].ProxyURL # << >>)
    /\ ret.transport.proxied =>
          /\ ret.transport.proxyURL.Scheme = UrlParse(ResolvedRule[1].ProxyURL).Scheme
          /\ ret.transport.proxyURL.Host = UrlParse(ResolvedRule[1].ProxyURL).Host
          /\ ret.transport.proxyURL.Path = UrlParse(ResolvedRule[1].ProxyURL).Path

HasCredentials(rule) == rule[1].Username # << >> /\ rule[1].Password # << >>

serverHost == <<"l", "o", "c", "a", "l", "h", "o", "s", "t">>

serverPort == 3000

DigitSeq == <<"0", "1", "2", "3", "4", "5", "6", "7", "8", "9">>

\* fmt's %d of a non-negative integer
RECURSIVE Itoa(_)
Itoa(n) == IF n < 10 THEN <<DigitSeq[n + 1]>> ELSE Itoa(n \div 10) \o <<DigitSeq[(n % 10) + 1]>>

handleRedirectURL(redirectURL) ==
    IF redirectURL = << >> THEN << >>
    ELSE IF ~HasPrefix(redirectURL, sHttp) /\ ~HasPrefix(redirectURL, sHttps) THEN redirectURL
    ELSE sHttp \o serverHost \o <<":">> \o Itoa(serverPort) \o <<"/">> \o redirectURL

sLocation == <<"L", "o", "c", "a", "t", "i", "o", "n">>

\* lines 219-227: resp.Header after the redirect check
rewriteLocation(statusCode, header) ==
    IF statusCode >= 300 /\ statusCode < 400
    THEN LET location == HeaderGet(header, sLocation)
         IN  IF location # << >>
             THEN HeaderSet(header, sLocation, handleRedirectURL(location))
             ELSE header
    ELSE header

\* lines 230-234: every value of every response header is added to w.Header()
RECURSIVE copyAll(_, _, _)
copyAll(header, from, keys) ==
    IF keys = {} THEN header
    ELSE LET key == CHOOSE k \in keys : TRUE
         IN  copyAll(addValues(header, key, from[key], 1), from, keys \ {key})

writtenHeader(statusCode, header) ==
    LET rewritten == rewriteLocation(statusCode, header)
    IN  copyAll(EmptyHeader, rewritten, DOMAIN rewritten)

(***************************************************************************)
(* SpecRedirect: lines 218-237 applied to bounded sets of upstream         *)
(* responses.                                                              *)
(***************************************************************************)
MaxLocations == 2

UpstreamStatuses == {200, 204, 299, 300, 301, 302, 399, 400, 404, 500}

LocationValues ==
    { << >>, <<"/", "r">>, <<"r">>, <<"/", "/", "t", "/", "r">>, <<"h", "t", "t", "p", ":", "/", "/", "t", "/", "r">>, <<"h", "t", "t", "p", "s", ":", "/", "/", "t">>, <<"h", "t", "t", "p", ":", "/", "t">> }

sContentType == <<"C", "o", "n", "t", "e", "n", "t", "-", "T", "y", "p", "e">>

UpstreamHeaders ==
    {[k \in {x \in {sLocation, sContentType} :
                (x = sLocation /\ loc # << >>) \/ (x = sContentType /\ ct)} |->
         IF k = sLocation THEN loc ELSE <<<<"t">>>>] :
       loc \in SeqsUpTo(LocationValues, MaxLocations), ct \in BOOLEAN}

InitRedirect ==
    /\ MainOff
    /\ call \in {[fn |-> "respond", statusCode |-> st, header |-> hd] :
                    st \in UpstreamStatuses, hd \in UpstreamHeaders}
    /\ ret = NoRet

RespondCall ==
    /\ call.fn = "respond"
    /\ ret = NoRet
    /\ ret' = [kind |-> "written", statusCode |-> call.statusCode,
               header |-> writtenHeader(call.statusCode, call.header)]
    /\ UNCHANGED <<call, mainVars>>

SpecRedirect == InitRedirect /\ [][RespondCall]_vars

IsAbsolute(location) == HasPrefix(location, sHttp) \/ HasPrefix(location, sHttps)

\* C4: the Location header the caller sees is http://<serverHost>:<serverPort>/
\* followed by the original Location iff the upstream status is in [300, 400)
\* and Location is present and begins with http:// or https://; in every other
\* case it reaches the caller exactly as the upstream sent it.
C4_LocationRewrittenIff ==
    ret.kind = "written" =>
        LET sent  == HeaderValues(call.header, sLocation)
            seen  == HeaderValues(ret.header, sLocation)
        IN  IF /\ call.statusCode \in 300..399
               /\ sent # << >>
               /\ IsAbsolute(sent[1])
            THEN seen = <<<<"h", "t", "t", "p", ":", "/", "/", "l", "o", "c", "a", "l", "h", "o", "s", "t", ":", "3", "0", "0", "0", "/">> \o sent[1]>>
            ELSE seen = sent

(***************************************************************************)
(* Spec: the server.  main (src/main.go:266-286) loads the configuration   *)
(* into the global config, field by field as xml.Unmarshal decodes the     *)
(* document, and only then registers the handler and serves; the server    *)
(* runs proxyHandler (src/main.go:131-244) in one goroutine per request.   *)
(* The handler reads the global config without synchronisation, one field  *)
(* at a time, and blocks in client.Do until the upstream answers or fails. *)
(***************************************************************************)
NumHandlers == 2

Handlers == 1..NumHandlers

Fields == {"DefaultProxy", "ProxyRules", "DirectDomains", "CustomHeaders"}

\* the zero value of ProxyConfig
ZeroConfig == ProxyConfig(ProxyRule(<< >>, << >>, << >>, << >>), << >>, << >>, << >>)

\* the tables proxy_config.xml may hold
ConfigFiles ==
    { ProxyConfig(ProxyRule(<< >>, proxyD, << >>, << >>),
                  <<ProxyRule(<<"a">>, proxyA, <<"n">>, <<"s">>)>>,
                  <<<<"b">>>>,
                  <<CustomHeader(<<"a">>, <<"/", "a">>, "f2")>>),
      ProxyConfig(ProxyRule(<< >>, << >>, << >>, << >>),
                  <<ProxyRule(<<"a">>, proxyMalformed, << >>, << >>)>>,
                  <<<<"c">>>>,
                  << >>) }

MainFs == [p \in {"f1", "f2"} |-> IF p = "f1" THEN Unreadable ELSE fileTwo]

sGET == <<"G", "E", "T">>

MainRequests ==
    {[method |-> sGET, path |-> p, rawQuery |-> << >>,
      header |-> HeaderOf(<<<<"v">>>>, << >>, <<<<"w">>>>, << >>), remoteAddr |-> remoteAddr1] :
        p \in {<<"/", "a", "/", "x">>, <<"/", "c">>, <<"/">>, <<"/", "a", ":", "b">>}}

NoRequest ==
    [method |-> << >>, path |-> << >>, rawQuery |-> << >>, header |-> EmptyHeader,
     remoteAddr |-> << >>]

\* what the upstream may answer
MainResponses ==
    { [kind |-> "response", statusCode |-> 200, header |-> HeaderOf(<< >>, <<<<"1">>>>, << >>, << >>)],
      [kind |-> "response", statusCode |-> 302,
       header |-> [k \in {sLocation} |-> <<<<"h", "t", "t", "p", ":", "/", "/", "t", "/", "r">>>>]],
      [kind |-> "response", statusCode |-> 404, header |-> EmptyHeader] }

NoUpstream == [kind |-> "none", statusCode |-> 0, header |-> EmptyHeader]

UpstreamFailed == [kind |-> "failed", statusCode |-> 0, header |-> EmptyHeader]

\* nothing written to the caller yet
NoReply == [written |-> FALSE, statusCode |-> 0, header |-> EmptyHeader]

\* http.Error(w, ..., code)
HttpError(code) == [written |-> TRUE, statusCode |-> code, header |-> EmptyHeader]

NotRead == [read |-> FALSE, gen |-> 0, complete |-> TRUE]

\* a read of field f of the global config, tagged with the generation it saw
ReadOf(f) ==
    [read |-> TRUE, gen |-> cfgGen[f], complete |-> \A x \in Fields : cfgGen[x] = cfgGen[f]]

IdleHandler ==
    [pc |-> "idle", r |-> NoRequest, targetPath |-> << >>, targetURL |-> ParseError,
     proxyRule |-> NilRule, transport |-> DirectTransport, outHeader |-> EmptyHeader,
     sent |-> 0, upstream |-> NoUpstream, w |-> NoReply, seen |-> [f \in Fields |-> NotRead]]

Init ==
    /\ call = NoCall
    /\ ret = NoRet
    /\ mainPc = "start"
    /\ fileConfig \in {[state |-> st, table |-> t] :
                          st \in {"missing", "malformed", "ok"}, t \in ConfigFiles}
    /\ config = ZeroConfig
    /\ cfgGen = [f \in Fields |-> 0]
    /\ handler = [h \in Handlers |-> IdleHandler]

\* loadConfig, lines 44-47: os.ReadFile; main exits on the error (line 273)
ReadConfigFile ==
    /\ mainPc = "start"
    /\ mainPc' = IF fileConfig.state = "missing" THEN "fatal" ELSE "unmarshal"
    /\ UNCHANGED <<call, ret, fileConfig, config, cfgGen, handler>>

\* loadConfig, line 49: xml.Unmarshal stores one more field into the global
UnmarshalField ==
    /\ mainPc = "unmarshal"
    /\ \E f \in Fields :
          /\ cfgGen[f] = 0
          /\ config' = [config EXCEPT ![f] = fileConfig.table[f]]
          /\ cfgGen' = [cfgGen EXCEPT ![f] = 1]
    /\ UNCHANGED <<call, ret, mainPc, fileConfig, handler>>

\* loadConfig, lines 50-52: the document is malformed; main exits (line 273)
UnmarshalFails ==
    /\ mainPc = "unmarshal"
    /\ fileConfig.state = "malformed"
    /\ mainPc' = "fatal"
    /\ UNCHANGED <<call, ret, fileConfig, config, cfgGen, handler>>

\* loadConfig returns nil; main registers the handler and serves (lines 277-282)
ListenAndServe ==
    /\ mainPc = "unmarshal"
    /\ fileConfig.state = "ok"
    /\ \A f \in Fields : cfgGen[f] = 1
    /\ mainPc' = "serving"
    /\ UNCHANGED <<call, ret, fileConfig, config, cfgGen, handler>>

\* a server that accepts requests before the configuration is loaded
Serving_BeforeLoad == mainPc # "fatal"

\* requests are served once main has reached http.ListenAndServe (line 282)
Serving == mainPc = "serving"

Finish(h, reply) == [handler EXCEPT ![h].pc = "done", ![h].w = reply]

\* lines 133-147: the target URL; a parse failure is answered 400
Begin(h) ==
    /\ Serving
    /\ handler[h].pc = "idle"
    /\ \E r \in MainRequests :
          LET targetPath == targetOf(r.path, r.rawQuery)
              targetURL  == UrlParse(targetPath)
          IN  handler' =
                 IF ~targetURL.ok
                 THEN [Finish(h, HttpError(400)) EXCEPT ![h].r = r,
                          ![h].targetPath = targetPath, ![h].targetURL = targetURL]
                 ELSE [handler EXCEPT ![h].pc = "isDirect", ![h].r = r,
                          ![h].targetPath = targetPath, ![h].targetURL = targetURL]
    /\ UNCHANGED <<call, ret, mainPc, fileConfig, config, cfgGen>>

\* findProxyRule, lines 75-77: isDirect reads config.DirectDomains
ReadDirectDomains(h) ==
    /\ handler[h].pc = "isDirect"
    /\ handler' =
          [handler EXCEPT
             ![h].seen["DirectDomains"] = ReadOf("DirectDomains"),
             ![h].pc = IF isDirect(config.DirectDomains, handler[h].targetURL.Host)
                       THEN "transport" ELSE "scan",
             ![h].proxyRule = NilRule]
    /\ UNCHANGED <<call, ret, mainPc, fileConfig, config, cfgGen>>

\* findProxyRule, lines 80-84: the scan of config.ProxyRules
ReadProxyRules(h) ==
    /\ handler[h].pc = "scan"
    /\ LET found == scanRules(config.ProxyRules, handler[h].targetURL.Host, 1)
       IN  handler' =
              [handler EXCEPT
                 ![h].seen["ProxyRules"] = ReadOf("ProxyRules"),
                 ![h].pc = IF found # NilRule THEN "transport" ELSE "default",
                 ![h].proxyRule = found]
    /\ UNCHANGED <<call, ret, mainPc, fileConfig, config, cfgGen>>

\* findProxyRule, lines 87-91: config.DefaultProxy
ReadDefaultProxy(h) ==
    /\ handler[h].pc = "default"
    /\ handler' =
          [handler EXCEPT
             ![h].seen["DefaultProxy"] = ReadOf("DefaultProxy"),
             ![h].pc = "transport",
             ![h].proxyRule = IF config.DefaultProxy.ProxyURL # << >>
                              THEN <<config.DefaultProxy>> ELSE NilRule]
    /\ UNCHANGED <<call, ret, mainPc, fileConfig, config, cfgGen>>

\* lines 153-180: the client and its transport; a malformed proxy URL is answered 500
SelectTransport(h) ==
    /\ handler[h].pc = "transport"
    /\ LET transport == transportFor(handler[h].proxyRule)
       IN  handler' =
              IF transport.err
              THEN [Finish(h, HttpError(500)) EXCEPT ![h].transport = transport]
              ELSE [handler EXCEPT ![h].pc = "build", ![h].transport = transport]
    /\ UNCHANGED <<call, ret, mainPc, fileConfig, config, cfgGen>>

\* http.NewRequest fails on an invalid method or a URL that does not parse
newRequestOk(method, url) ==
    /\ method # << >>
    /\ \A i \in 1..Len(method) : method[i] \in TokenChars
    /\ UrlParse(url).ok

\* lines 183-208: the outbound request; the loop over config.CustomHeaders
BuildRequest(h) ==
    /\ handler[h].pc = "build"
    /\ handler' =
          IF ~newRequestOk(handler[h].r.method, handler[h].targetPath)
          THEN Finish(h, HttpError(500))
          ELSE [handler EXCEPT
                  ![h].seen["CustomHeaders"] = ReadOf("CustomHeaders"),
                  ![h].pc = "send",
                  ![h].outHeader = outboundHeader(config.CustomHeaders, MainFs,
                                                  handler[h].targetURL, handler[h].r.header,
                                                  handler[h].r.remoteAddr)]
    /\ UNCHANGED <<call, ret, mainPc, fileConfig, config, cfgGen>>

\* line 211: client.Do hands the request to the transport
Send(h) ==
    /\ handler[h].pc = "send"
    /\ handler' = [handler EXCEPT ![h].pc = "await", ![h].sent = @ + 1]
    /\ UNCHANGED <<call, ret, mainPc, fileConfig, config, cfgGen>>

\* lines 212-215: the attempt failed; the caller is answered 500
UpstreamFails(h) ==
    /\ handler[h].pc = "await"
    /\ handler' = [Finish(h, HttpError(500)) EXCEPT ![h].upstream = UpstreamFailed]
    /\ UNCHANGED <<call, ret, mainPc, fileConfig, config, cfgGen>>

\* a client whose CheckRedirect returns nil follows the redirect
CheckRedirect_Follow == "nil"

\* lines 153-158: CheckRedirect returns http.ErrUseLastResponse
CheckRedirect == "ErrUseLastResponse"

\* http.Client.Do asks CheckRedirect before following a 3xx with a Location
ClientFollows(resp) ==
    /\ resp.statusCode \in {301, 302, 303, 307, 308}
    /\ HeaderGet(resp.header, sLocation) # << >>
    /\ CheckRedirect = "nil"

MaxRedirects == 3

\* the upstream answers: client.Do returns the response (or follows a redirect),
\* lines 218-237 rewrite Location, copy the headers and write the status
UpstreamResponds(h) ==
    /\ handler[h].pc = "await"
    /\ \E resp \in MainResponses :
          handler' =
             IF ClientFollows(resp) /\ handler[h].sent < MaxRedirects
             THEN [handler EXCEPT ![h].sent = @ + 1]
             ELSE [Finish(h, [written |-> TRUE, statusCode |-> resp.statusCode,
                              header |-> writtenHeader(resp.statusCode, resp.header)])
                     EXCEPT ![h].upstream = resp]
    /\ UNCHANGED <<call, ret, mainPc, fileConfig, config, cfgGen>>

Next ==
    \/ ReadConfigFile
    \/ UnmarshalField
    \/ UnmarshalFails
    \/ ListenAndServe
    \/ \E h \in Handlers :
          \/ Begin(h)
          \/ ReadDirectDomains(h)
          \/ ReadProxyRules(h)
          \/ ReadDefaultProxy(h)
          \/ SelectTransport(h)
          \/ BuildRequest(h)
          \/ Send(h)
          \/ UpstreamFails(h)
          \/ UpstreamResponds(h)

Spec == Init /\ [][Next]_vars

(***************************************************************************)
(* Claims about the server.                                                *)
(***************************************************************************)
MalformedProxyRule(rule) ==
    rule # NilRule /\ rule[1].ProxyURL # << >> /\ ~UrlParse(rule[1].ProxyURL).ok

\* C5: the handler sends at most one upstream request per inbound request: none
\* when the target URL fails to parse (400) or the resolved rule's proxy URL is
\* malformed (500), exactly one otherwise; a failed attempt is answered 500 and
\* not retried; a 3xx response is returned as it is, without a follow-up request.
C5_AtMostOneUpstreamRequest ==
    \A h \in Handlers :
        /\ handler[h].sent <= 1
        /\ handler[h].pc = "done" =>
              IF ~handler[h].targetURL.ok
              THEN handler[h].sent = 0 /\ handler[h].w.statusCode = 400
              ELSE IF MalformedProxyRule(handler[h].proxyRule)
              THEN handler[h].sent = 0 /\ handler[h].w.statusCode = 500
              ELSE /\ handler[h].sent = 1
                   /\ handler[h].upstream.kind = "failed" => handler[h].w.statusCode = 500
                   /\ handler[h].upstream.kind = "response" =>
                         handler[h].w.statusCode = handler[h].upstream.statusCode

\* one request was answered with the upstream's 302 after a single upstream
\* request, another with 500 after a single failed attempt
C5_Witness ==
    /\ handler[1].pc = "done"
    /\ handler[1].upstream.kind = "response"
    /\ handler[1].w.statusCode = 302
    /\ handler[1].sent = 1
    /\ handler[2].pc = "done"
    /\ handler[2].upstream.kind = "failed"
    /\ handler[2].w.statusCode = 500
    /\ handler[2].sent = 1

\* C6: every resolution reads directDomains, rules, defaultProxy and
\* customHeaders from one complete generation of the routing table, never from
\* a table with some fields loaded and others not.
C6_OneGenerationPerResolution ==
    \A h \in Handlers :
        /\ \A f \in Fields : handler[h].seen[f].complete
        /\ \A f, g \in Fields :
              handler[h].seen[f].read /\ handler[h].seen[g].read =>
                  handler[h].seen[f].gen = handler[h].seen[g].gen

\* two requests are in flight together; one has read all four fields of the
\* loaded table, the other is in the middle of its resolution
C6_Witness ==
    /\ \A f \in Fields : handler[1].seen[f].read /\ handler[1].seen[f].gen = 1
    /\ handler[1].pc = "await"
    /\ handler[2].pc = "scan"
    /\ handler[2].seen["DirectDomains"].read

\* C7: every request the handler has taken up holds a request identifier, and no
\* two requests hold the same one.
C7_UniqueRequestIDs ==
    \A h \in Handlers :
        handler[h].pc # "idle" =>
            /\ "requestID" \in DOMAIN handler[h]
            /\ \A g \in Handlers \ {h} :
                  handler[g].pc # "idle" => handler[g].requestID # handler[h].requestID

====
